---------------------------- MODULE Spec2Model ----------------------------
(***************************************************************************)
(* Model of api/proxy.js: the request handler of a forwarding proxy.  One  *)
(* request is followed from the read of its target to the response it      *)
(* sends.  JavaScript strings are TLA+ strings; the regular expressions    *)
(* of the source are matchers over them, written for the pattern text the  *)
(* source holds (in a regex literal "\\." is a backslash followed by any   *)
(* character, "\\d+" a backslash followed by one or more letters d, and    *)
(* "\\2" a backslash followed by the digit 2).                             *)
(***************************************************************************)
EXTENDS Integers, Sequences, FiniteSets, TLC

(***************************************************************************)
(* Strings                                                                 *)
(***************************************************************************)
BS == "\\"      \* the one-character string holding a backslash
DQ == "\""      \* the one-character string holding a double quote
SQ == "'"

Char(s, i) == SubSeq(s, i, i)

UpperAlpha == "ABCDEFGHIJKLMNOPQRSTUVWXYZ"
LowerAlpha == "abcdefghijklmnopqrstuvwxyz"
Digits     == "0123456789"

\* 0 when c does not occur in s, else the index of its first occurrence
CharIndex(s, c) ==
  IF \E i \in 1..Len(s) : Char(s, i) = c
  THEN CHOOSE i \in 1..Len(s) : Char(s, i) = c /\ \A j \in 1..(i-1) : Char(s, j) # c
  ELSE 0

IsUpper(c) == CharIndex(UpperAlpha, c) > 0
IsLower(c) == CharIndex(LowerAlpha, c) > 0
IsAlpha(c) == IsUpper(c) \/ IsLower(c)
IsSpace(c) == c = " "

LowerChar(c) == IF IsUpper(c) THEN Char(LowerAlpha, CharIndex(UpperAlpha, c)) ELSE c

\* String.prototype.toLowerCase, by halves
RECURSIVE ToLowerCase(_)
ToLowerCase(s) ==
  IF Len(s) = 0 THEN ""
  ELSE IF Len(s) = 1 THEN LowerChar(s)
  ELSE ToLowerCase(SubSeq(s, 1, Len(s) \div 2))
         \o ToLowerCase(SubSeq(s, Len(s) \div 2 + 1, Len(s)))

\* String.prototype.startsWith, endsWith, includes, lastIndexOf
StartsWithAt(s, p, t) == p + Len(t) - 1 <= Len(s) /\ SubSeq(s, p, p + Len(t) - 1) = t
StartsWith(s, t) == StartsWithAt(s, 1, t)
EndsWith(s, t) == Len(t) <= Len(s) /\ SubSeq(s, Len(s) - Len(t) + 1, Len(s)) = t
Includes(s, t) == \E p \in 1..(Len(s) + 1) : StartsWithAt(s, p, t)
LastIndexOf(s, t) ==
  IF \E i \in 1..Len(s) : StartsWithAt(s, i, t)
  THEN CHOOSE i \in 1..Len(s) :
         StartsWithAt(s, i, t) /\ \A j \in (i+1)..Len(s) : ~StartsWithAt(s, j, t)
  ELSE 0

\* String.prototype.trim, for the blank the inputs use
RECURSIVE TrimLeft(_)
TrimLeft(s) == IF s # "" /\ IsSpace(Char(s, 1)) THEN TrimLeft(SubSeq(s, 2, Len(s))) ELSE s
RECURSIVE TrimRight(_)
TrimRight(s) ==
  IF s # "" /\ IsSpace(Char(s, Len(s))) THEN TrimRight(SubSeq(s, 1, Len(s) - 1)) ELSE s
Trim(s) == TrimRight(TrimLeft(s))

\* String.prototype.split on a one-character separator: a sequence of strings
RECURSIVE Split(_, _)
Split(s, sep) ==
  LET i == CharIndex(s, sep)
  IN  IF i = 0 THEN <<s>>
      ELSE <<SubSeq(s, 1, i - 1)>> \o Split(SubSeq(s, i + 1, Len(s)), sep)

\* Array.prototype.join
RECURSIVE Join(_, _)
Join(parts, sep) ==
  IF parts = <<>> THEN ""
  ELSE IF Len(parts) = 1 THEN parts[1]
  ELSE parts[1] \o sep \o Join(Tail(parts), sep)

\* Array.prototype.filter(Boolean) on strings: the empty string is falsy
RECURSIVE FilterNonEmpty(_)
FilterNonEmpty(parts) ==
  IF parts = <<>> THEN <<>>
  ELSE (IF parts[1] = "" THEN <<>> ELSE <<parts[1]>>) \o FilterNonEmpty(Tail(parts))

\* every character of s satisfies membership in the string set
AllIn(s, set) == \A i \in 1..Len(s) : CharIndex(set, Char(s, i)) > 0
AllDigits(s) == s # "" /\ AllIn(s, Digits)

\* decimal numerals
RECURSIVE StrToNat(_)
StrToNat(s) ==
  IF s = "" THEN 0
  ELSE 10 * StrToNat(SubSeq(s, 1, Len(s) - 1)) + (CharIndex(Digits, Char(s, Len(s))) - 1)
RECURSIVE NatToStr(_)
NatToStr(n) ==
  IF n < 10 THEN Char(Digits, n + 1)
  ELSE NatToStr(n \div 10) \o Char(Digits, (n % 10) + 1)


(***************************************************************************)
(* new URL(input) and new URL(input, base): the part of the WHATWG URL     *)
(* parser that http/https targets and attribute values exercise.  Hosts    *)
(* are lower-cased, IPv4 numbers are normalised to a dotted quad, an IPv6  *)
(* host keeps its brackets, dot segments are removed from the path.        *)
(* Percent-escapes inside a host, numerals of over seven digits and the    *)
(* compression of IPv6 addresses are left out: no input uses them.  The   *)
(* grave accent is left out of the character tables.                       *)
(***************************************************************************)
HexDigits == "0123456789abcdef"
SchemeChars == LowerAlpha \o UpperAlpha \o Digits \o "+-."
SpecialSchemes == {"http", "https", "ftp", "ws", "wss"}
ForbiddenHostChars == " #/:<>?@[]^|%" \o BS

PctChars == " " \o DQ \o "#$%&'()*+,/:;<=>?@[" \o BS \o "]^{|}"
PctCodes == << "%20", "%22", "%23", "%24", "%25", "%26", "%27", "%28", "%29",
               "%2A", "%2B", "%2C", "%2F", "%3A", "%3B", "%3C", "%3D", "%3E",
               "%3F", "%40", "%5B", "%5C", "%5D", "%5E", "%7B", "%7C",
               "%7D" >>

\* percent-encode the characters of s that lie in the string set
PctChar(c, set) == IF CharIndex(set, c) > 0 THEN PctCodes[CharIndex(PctChars, c)] ELSE c
RECURSIVE PctEncode(_, _)
PctEncode(s, set) ==
  IF Len(s) = 0 THEN ""
  ELSE IF Len(s) = 1 THEN PctChar(s, set)
  ELSE PctEncode(SubSeq(s, 1, Len(s) \div 2), set)
         \o PctEncode(SubSeq(s, Len(s) \div 2 + 1, Len(s)), set)

PathEncodeSet     == " " \o DQ \o "#<>?^{}"
QueryEncodeSet    == " " \o DQ \o "#<>'"
FragmentEncodeSet == " " \o DQ \o "<>"
\* encodeURIComponent leaves A-Z a-z 0-9 - _ . ! ~ * ' ( ) alone
ComponentEncodeSet == " " \o DQ \o "#$%&+,/:;<=>?@[" \o BS \o "]^{|}"

encodeURIComponent(s) == PctEncode(s, ComponentEncodeSet)

\* index of the first character of s that lies in the string set, 0 if none
FirstOf(s, set) ==
  IF \E i \in 1..Len(s) : CharIndex(set, Char(s, i)) > 0
  THEN CHOOSE i \in 1..Len(s) :
         CharIndex(set, Char(s, i)) > 0 /\ \A j \in 1..(i-1) : CharIndex(set, Char(s, j)) = 0
  ELSE 0

RECURSIVE SkipSlashes(_)
SkipSlashes(s) ==
  IF s # "" /\ Char(s, 1) \in {"/", BS} THEN SkipSlashes(SubSeq(s, 2, Len(s))) ELSE s

RECURSIVE BackToSlash(_)
BackToSlash(s) ==
  IF Len(s) = 0 THEN ""
  ELSE IF Len(s) = 1 THEN (IF s = BS THEN "/" ELSE s)
  ELSE BackToSlash(SubSeq(s, 1, Len(s) \div 2))
         \o BackToSlash(SubSeq(s, Len(s) \div 2 + 1, Len(s)))

\* path, query ("?..." or "") and fragment ("#..." or "") of what follows the authority
PQFOf(pre, q, f) ==
  [ p |-> BackToSlash(IF q = 0 THEN pre ELSE SubSeq(pre, 1, q - 1)),
    q |-> IF q = 0 THEN "" ELSE PctEncode(SubSeq(pre, q, Len(pre)), QueryEncodeSet),
    hasq |-> q > 0,
    f |-> f ]
PQFPre(pre, f) == PQFOf(pre, CharIndex(pre, "?"), f)
PQFAt(r, h) ==
  PQFPre(IF h = 0 THEN r ELSE SubSeq(r, 1, h - 1),
         IF h = 0 THEN "" ELSE "#" \o PctEncode(SubSeq(r, h + 1, Len(r)), FragmentEncodeSet))
SplitPQF(r) == PQFAt(r, CharIndex(r, "#"))

\* the path state: dot segments removed, other segments percent-encoded; lo is
\* the segment in lower case, tl the empty segment a final dot segment leaves
NormSeg(acc, seg, lo, tl) ==
  IF lo \in {"..", ".%2e", "%2e.", "%2e%2e"}
  THEN (IF acc = <<>> THEN <<>> ELSE SubSeq(acc, 1, Len(acc) - 1)) \o tl
  ELSE IF lo \in {".", "%2e"} THEN acc \o tl
  ELSE acc \o <<PctEncode(seg, PathEncodeSet)>>
RECURSIVE NormSegs(_, _)
NormSegs(segs, acc) ==
  IF segs = <<>> THEN acc
  ELSE NormSegs(Tail(segs),
                NormSeg(acc, segs[1], ToLowerCase(segs[1]),
                        IF Len(segs) = 1 THEN <<"">> ELSE <<>>))

\* an IPv4 number: hexadecimal after 0x, octal after a leading 0, else decimal
RECURSIVE RadixVal(_, _)
RadixVal(s, R) ==
  IF s = "" THEN 0
  ELSE R * RadixVal(SubSeq(s, 1, Len(s) - 1), R) + (CharIndex(HexDigits, Char(s, Len(s))) - 1)
RadixOk(s, R) ==
  /\ Len(s) <= 7
  /\ \A i \in 1..Len(s) : LET d == CharIndex(HexDigits, Char(s, i)) IN d > 0 /\ d <= R
V4Number(body, R) ==
  IF RadixOk(body, R) THEN [ok |-> TRUE, n |-> RadixVal(body, R)]
  ELSE [ok |-> FALSE, n |-> 0]
V4Radix(s) ==
  IF Len(s) >= 2 /\ StartsWith(s, "0x") THEN 16
  ELSE IF Len(s) >= 2 /\ StartsWith(s, "0") THEN 8 ELSE 10
V4Body(s, R) ==
  IF R = 16 THEN SubSeq(s, 3, Len(s)) ELSE IF R = 8 THEN SubSeq(s, 2, Len(s)) ELSE s
V4NumberIn(s, R) == V4Number(V4Body(s, R), R)
ParseIPv4Number(s) == IF s = "" THEN [ok |-> FALSE, n |-> 0] ELSE V4NumberIn(s, V4Radix(s))

V4Drop(ps) == IF Len(ps) > 1 /\ ps[Len(ps)] = "" THEN SubSeq(ps, 1, Len(ps) - 1) ELSE ps
V4Parts(h) == V4Drop(Split(h, "."))

LastIsNumber(last) == AllDigits(last) \/ ParseIPv4Number(last).ok
LastOf(ps) == LastIsNumber(ps[Len(ps)])
EndsInNumber(h) == LastOf(V4Parts(h))

Pow256(k) == IF k = 0 THEN 1 ELSE IF k = 1 THEN 256 ELSE IF k = 2 THEN 65536 ELSE 16777216

\* the last of n parts fills the octets n..4; the parts before it are octets
V4Octet(nums, j) ==
  IF j < Len(nums) THEN nums[j].n ELSE (nums[Len(nums)].n \div Pow256(4 - j)) % 256
IPv4Of(nums) ==
  IF \/ Len(nums) > 4
     \/ \E i \in 1..Len(nums) : ~nums[i].ok
     \/ \E i \in 1..(Len(nums) - 1) : nums[i].n > 255
     \/ (Len(nums) > 1 /\ nums[Len(nums)].n >= Pow256(5 - Len(nums)))
  THEN [ok |-> FALSE, hostname |-> ""]
  ELSE [ok |-> TRUE,
        hostname |-> Join([j \in 1..4 |-> NatToStr(V4Octet(nums, j))], ".")]
IPv4From(ps) == IPv4Of([i \in 1..Len(ps) |-> ParseIPv4Number(ps[i])])
ParseIPv4(h) == IPv4From(V4Parts(h))

IPv6Of(raw, inner) ==
  IF /\ EndsWith(raw, "]")
     /\ AllIn(inner, HexDigits \o ":")
     /\ (Includes(inner, "::") \/ Len(Split(inner, ":")) = 8)
  THEN [ok |-> TRUE, hostname |-> "[" \o inner \o "]"]
  ELSE [ok |-> FALSE, hostname |-> ""]
ParseIPv6(raw) == IPv6Of(raw, ToLowerCase(SubSeq(raw, 2, Len(raw) - 1)))

\* the host parser for a special scheme
DomainOf(h) ==
  IF FirstOf(h, ForbiddenHostChars) > 0 THEN [ok |-> FALSE, hostname |-> ""]
  ELSE IF EndsInNumber(h) THEN ParseIPv4(h)
  ELSE [ok |-> TRUE, hostname |-> h]
ParseHost(raw) ==
  IF raw = "" THEN [ok |-> FALSE, hostname |-> ""]
  ELSE IF StartsWith(raw, "[") THEN ParseIPv6(raw)
  ELSE DomainOf(ToLowerCase(raw))

DefaultPort(scheme) ==
  IF scheme = "http" \/ scheme = "ws" THEN "80"
  ELSE IF scheme = "https" \/ scheme = "wss" THEN "443"
  ELSE IF scheme = "ftp" THEN "21" ELSE ""

FailURL ==
  [ok |-> FALSE, special |-> FALSE, scheme |-> "", userinfo |-> "", hostname |-> "",
   port |-> "", segs |-> <<>>, query |-> "", fragment |-> ""]

PortOk(port) == port = "" \/ (AllDigits(port) /\ Len(port) <= 5 /\ StrToNat(port) <= 65535)
PortOut(scheme, n) == IF n = DefaultPort(scheme) THEN "" ELSE n
PortOf(scheme, port) == IF port = "" THEN "" ELSE PortOut(scheme, NatToStr(StrToNat(port)))

\* what follows the slashes of a special URL: authority, path, query, fragment
AuthBuild(scheme, userinfo, host, port, pqf) ==
  IF ~host.ok \/ ~PortOk(port) THEN FailURL
  ELSE [ok |-> TRUE, special |-> TRUE, scheme |-> scheme, userinfo |-> userinfo,
        hostname |-> host.hostname, port |-> PortOf(scheme, port),
        segs |-> NormSegs(Split(SubSeq(pqf.p, 2, Len(pqf.p)), "/"), <<>>),
        query |-> pqf.q, fragment |-> pqf.f]
AuthColon(scheme, userinfo, hp, colon, pqf) ==
  AuthBuild(scheme, userinfo,
            ParseHost(IF colon = 0 THEN hp ELSE SubSeq(hp, 1, colon - 1)),
            IF colon = 0 THEN "" ELSE SubSeq(hp, colon + 1, Len(hp)), pqf)
V6Colon(hp, close) ==
  IF close > 0 /\ close < Len(hp) /\ Char(hp, close + 1) = ":" THEN close + 1 ELSE 0
PortColon(hp) == IF StartsWith(hp, "[") THEN V6Colon(hp, CharIndex(hp, "]")) ELSE CharIndex(hp, ":")
AuthHostPort(scheme, userinfo, hp, pqf) == AuthColon(scheme, userinfo, hp, PortColon(hp), pqf)
AuthUser(scheme, auth, at, pqf) ==
  AuthHostPort(scheme, SubSeq(auth, 1, at), SubSeq(auth, at + 1, Len(auth)), pqf)
AuthSplit(scheme, auth, pqf) == AuthUser(scheme, auth, LastIndexOf(auth, "@"), pqf)
AuthAt(scheme, r, e) ==
  AuthSplit(scheme, IF e = 0 THEN r ELSE SubSeq(r, 1, e - 1),
            SplitPQF(IF e = 0 THEN "" ELSE SubSeq(r, e, Len(r))))
ParseAuthority(scheme, r) == AuthAt(scheme, r, FirstOf(r, "/?#" \o BS))

\* an input without a scheme (or repeating the base's) against a special base
RelativeOf(r, pqf, base) ==
  IF StartsWith(pqf.p, "//") THEN ParseAuthority(base.scheme, SkipSlashes(r))
  ELSE IF StartsWith(pqf.p, "/")
  THEN [base EXCEPT !.segs = NormSegs(Split(SubSeq(pqf.p, 2, Len(pqf.p)), "/"), <<>>),
                    !.query = pqf.q, !.fragment = pqf.f]
  ELSE IF pqf.p = ""
  THEN [base EXCEPT !.query = IF pqf.hasq THEN pqf.q ELSE base.query,
                    !.fragment = pqf.f]
  ELSE [base EXCEPT !.segs = NormSegs(Split(pqf.p, "/"),
                                      SubSeq(base.segs, 1, Len(base.segs) - 1)),
                    !.query = pqf.q, !.fragment = pqf.f]
ParseRelative(r, base) == RelativeOf(r, SplitPQF(r), base)

SchemeEndAt(s, i) ==
  IF i > 1 /\ IsAlpha(Char(s, 1)) /\ AllIn(SubSeq(s, 2, i - 1), SchemeChars) THEN i ELSE 0
SchemeEnd(s) == SchemeEndAt(s, CharIndex(s, ":"))

\* new URL(input, base); base = FailURL stands for the one-argument form
ParseWithScheme(scheme, rest, base) ==
  IF scheme \in SpecialSchemes
  THEN IF base.ok /\ base.scheme = scheme /\ ~StartsWith(BackToSlash(rest), "//")
       THEN ParseRelative(rest, base)
       ELSE ParseAuthority(scheme, SkipSlashes(rest))
  ELSE [FailURL EXCEPT !.ok = TRUE, !.scheme = scheme, !.segs = <<rest>>]
ParseScheme(s, se, base) ==
  IF se > 0
  THEN ParseWithScheme(ToLowerCase(SubSeq(s, 1, se - 1)), SubSeq(s, se + 1, Len(s)), base)
  ELSE IF base.ok THEN ParseRelative(s, base) ELSE FailURL
ParseTrimmed(s, base) == ParseScheme(s, SchemeEnd(s), base)
ParseURL(input, base) == ParseTrimmed(Trim(input), base)

\* URL.prototype.protocol, hostname, toString
Protocol(u) == u.scheme \o ":"
Hostname(u) == u.hostname
Href(u) ==
  IF u.special
  THEN u.scheme \o "://" \o u.userinfo \o u.hostname
         \o (IF u.port = "" THEN "" ELSE ":" \o u.port)
         \o "/" \o Join(u.segs, "/") \o u.query \o u.fragment
  ELSE u.scheme \o ":" \o u.segs[1]


(***************************************************************************)
(* Regular expressions.  A pattern is a sequence of tokens; Ends(s, p, t)  *)
(* is the set of positions at which a match of t that starts at p can end. *)
(***************************************************************************)
Lit(c)      == [k |-> "lit",  c |-> c,  set |-> "", neg |-> FALSE, min |-> 0]
ILit(c)     == [k |-> "ilit", c |-> c,  set |-> "", neg |-> FALSE, min |-> 0]
AnyChar     == [k |-> "any",  c |-> "", set |-> "", neg |-> FALSE, min |-> 0]
EndOfInput  == [k |-> "eos",  c |-> "", set |-> "", neg |-> FALSE, min |-> 0]
OneOf(set)  == [k |-> "rep1", c |-> "", set |-> set, neg |-> FALSE, min |-> 1]
Rep(set, neg, min) == [k |-> "rep", c |-> "", set |-> set, neg |-> neg, min |-> min]

InClass(c, t) == (CharIndex(t.set, c) > 0) # t.neg

\* how many characters from p on lie in the class of t
RunLen(s, p, t) ==
  CHOOSE n \in 0..(Len(s) + 1 - p) :
    /\ \A i \in p..(p + n - 1) : InClass(Char(s, i), t)
    /\ (p + n > Len(s) \/ ~InClass(Char(s, p + n), t))

RECURSIVE Ends(_, _, _)
Ends(s, p, toks) ==
  IF toks = <<>> THEN {p}
  ELSE LET t    == toks[1]
           rest == Tail(toks)
       IN  CASE t.k = "lit" ->
                  IF StartsWithAt(s, p, t.c) THEN Ends(s, p + Len(t.c), rest) ELSE {}
             [] t.k = "ilit" ->
                  IF /\ p + Len(t.c) - 1 <= Len(s)
                     /\ ToLowerCase(SubSeq(s, p, p + Len(t.c) - 1)) = ToLowerCase(t.c)
                  THEN Ends(s, p + Len(t.c), rest) ELSE {}
             [] t.k = "any" ->
                  IF p <= Len(s) /\ Char(s, p) # "\n" THEN Ends(s, p + 1, rest) ELSE {}
             [] t.k = "eos" ->
                  IF p = Len(s) + 1 THEN Ends(s, p, rest) ELSE {}
             [] t.k = "rep1" ->
                  IF p <= Len(s) /\ InClass(Char(s, p), t) THEN Ends(s, p + 1, rest) ELSE {}
             [] t.k = "rep" ->
                  UNION { Ends(s, p + n, rest) : n \in t.min .. RunLen(s, p, t) }

\* RegExp.prototype.test for /^(?:a1|a2|...)$/ and for an unanchored /a$/
TestWhole(s, alts) == \E a \in alts : (Len(s) + 1) \in Ends(s, 1, a)
TestSuffix(s, toks) == \E p \in 1..(Len(s) + 1) : (Len(s) + 1) \in Ends(s, p, toks)

SetMax(S) == CHOOSE x \in S : \A y \in S : y <= x

\* the matches of a global replace, left to right: each starts where the one
\* before it ended.  The patterns below hold one greedy repetition that
\* decides the end, so the match taken at p is the longest one.
MatchEnds(s, p, alts) == UNION { Ends(s, p, a) : a \in alts }
\* the first position from p on at which a match starts, 0 if none
NextStart(s, p, alts) ==
  IF \E i \in p..Len(s) : MatchEnds(s, i, alts) # {}
  THEN CHOOSE i \in p..Len(s) :
         MatchEnds(s, i, alts) # {} /\ \A j \in p..(i - 1) : MatchEnds(s, j, alts) = {}
  ELSE 0
RECURSIVE FindAll(_, _, _)
FindAt(s, i, to, alts) == <<[from |-> i, to |-> to]>> \o FindAll(s, to, alts)
FindFrom(s, i, alts) == IF i = 0 THEN <<>> ELSE FindAt(s, i, SetMax(MatchEnds(s, i, alts)), alts)
FindAll(s, p, alts) == FindFrom(s, NextStart(s, p, alts), alts)

(***************************************************************************)
(* The patterns of the source, token by token                              *)
(***************************************************************************)
\* /^(localhost|127(?:\\.|$)|0\\.0\\.0\\.0|::1)$/
LocalHostPattern ==
  { <<Lit("localhost")>>,
    <<Lit("127"), Lit(BS), AnyChar>>,
    <<Lit("127"), EndOfInput>>,
    <<Lit("0"), Lit(BS), AnyChar, Lit("0"), Lit(BS), AnyChar, Lit("0"), Lit(BS), AnyChar,
      Lit("0")>>,
    <<Lit("::1")>> }

\* /\.local$/i
DotLocalPattern == <<ILit(".local")>>

\* /^\\d+\\.\\d+\\.\\d+\\.\\d+$/
DottedQuadPattern ==
  { <<Lit(BS), Rep("d", FALSE, 1), Lit(BS), AnyChar,
      Lit(BS), Rep("d", FALSE, 1), Lit(BS), AnyChar,
      Lit(BS), Rep("d", FALSE, 1), Lit(BS), AnyChar,
      Lit(BS), Rep("d", FALSE, 1)>> }

\* /<meta[^>]*http-equiv=["']Content-Security-Policy["'][^>]*>/ig
MetaCspPattern ==
  { <<ILit("<meta"), Rep(">", TRUE, 0), ILit("http-equiv="), OneOf(DQ \o SQ),
      ILit("Content-Security-Policy"), OneOf(DQ \o SQ), Rep(">", TRUE, 0), Lit(">")>> }

\* /(src|href|action)=("|\')([^"\'>]+)\\2/ig
AttrNames == <<"src", "href", "action">>
AttrPattern ==
  { <<ILit(AttrNames[i]), Lit("="), OneOf(DQ \o SQ), Rep(DQ \o SQ \o ">", TRUE, 1),
      Lit(BS), Lit("2")>> : i \in 1..3 }

\* /srcset=("|\')([^"']+)\\1/ig
SrcsetPattern ==
  { <<ILit("srcset="), OneOf(DQ \o SQ), Rep(DQ \o SQ, TRUE, 1), Lit(BS), Lit("1")>> }


(***************************************************************************)
(* The pure steps of the handler                                           *)
(***************************************************************************)
\* (req.query && req.query.url) || req.headers['x-target-url']; a missing value
\* is the empty string: the source reads each of them through || or !
TargetUrlOf(r) == IF r.queryUrl # "" THEN r.queryUrl ELSE r.headerUrl

\* API_KEY set and provided !== API_KEY
ApiKeyRejected(e, r) == e.API_KEY # "" /\ r.apiKey # e.API_KEY

SchemeAllowed(u) == Protocol(u) \in {"http:", "https:"}

IsForbiddenHost(host) ==
  TestWhole(host, LocalHostPattern) \/ TestSuffix(host, DotLocalPattern)

\* Number(s) of a part of the host; NaN stands for the value no comparison holds of
NaN == -1
NumberTrimmed(t) ==
  IF t = "" THEN 0 ELSE IF AllDigits(t) /\ Len(t) <= 9 THEN StrToNat(t) ELSE NaN
NumberOf(s) == NumberTrimmed(Trim(s))

MapNumber(raw) == [i \in 1..Len(raw) |-> NumberOf(raw[i])]
InPrivateRange(parts) ==
  \/ parts[1] = 10
  \/ (Len(parts) >= 2 /\ parts[1] = 172 /\ parts[2] >= 16 /\ parts[2] <= 31)
  \/ (Len(parts) >= 2 /\ parts[1] = 192 /\ parts[2] = 168)
IsForbiddenIpRange(host) ==
  TestWhole(host, DottedQuadPattern) /\ InPrivateRange(MapNumber(Split(host, ".")))

\* (process.env.ALLOWLIST || '').split(',').map(s => s.trim()).filter(Boolean)
MapTrim(raw) == [i \in 1..Len(raw) |-> Trim(raw[i])]
AllowlistOf(e) == FilterNonEmpty(MapTrim(Split(e.ALLOWLIST, ",")))

\* the same test with the dot of the suffix forgotten
AllowlistOkNoDot(allowlist, host) ==
  \E i \in 1..Len(allowlist) : allowlist[i] = host \/ EndsWith(host, allowlist[i])

\* allowlist.some(a => a === host || host.endsWith('.' + a))
AllowlistOk(allowlist, host) ==
  \E i \in 1..Len(allowlist) : allowlist[i] = host \/ EndsWith(host, "." \o allowlist[i])

HeaderGet(headers, name) ==
  IF \E h \in headers : h[1] = name
  THEN (CHOOSE h \in headers : h[1] = name)[2]
  ELSE ""
SetHeader(headers, name, value) == {h \in headers : h[1] # name} \cup {<<name, value>>}

\* contentType.includes('text/html')
IsHtml(contentType) == Includes(contentType, "text/html")

\* `${req.protocol || 'https'}://${req.headers.host}/api/proxy`
ProxyBase(r) ==
  (IF r.protocol # "" THEN r.protocol ELSE "https") \o "://" \o r.host \o "/api/proxy"

RECURSIVE Splice(_, _, _, _, _)
Splice(s, ms, reps, i, pos) ==
  IF i > Len(ms) THEN SubSeq(s, pos, Len(s))
  ELSE SubSeq(s, pos, ms[i].from - 1) \o reps[i] \o Splice(s, ms, reps, i + 1, ms[i].to)

Delete(html, ms) == Splice(html, ms, [i \in 1..Len(ms) |-> ""], 1, 1)
StripMetaCsp(html) == Delete(html, FindAll(html, 1, MetaCspPattern))

\* the try block of rewriteAttr and its catch: abs is new URL(val, target)
AttrOut(m, attr, q, abs, r) ==
  IF abs.ok
  THEN attr \o "=" \o q \o ProxyBase(r) \o "?url=" \o encodeURIComponent(Href(abs)) \o q
  ELSE m
rewriteAttr(m, attr, q, val, tgt, r) == AttrOut(m, attr, q, ParseURL(val, tgt), r)

\* length of the attribute name that matched at position p
AttrLenAt(s, p) ==
  Len(AttrNames[CHOOSE i \in 1..3 :
        /\ p + Len(AttrNames[i]) - 1 <= Len(s)
        /\ ToLowerCase(SubSeq(s, p, p + Len(AttrNames[i]) - 1)) = AttrNames[i]])

\* the groups of a match m whose attribute name has n characters
AttrGroups(html, m, n, tgt, r) ==
  rewriteAttr(SubSeq(html, m.from, m.to - 1),
              SubSeq(html, m.from, m.from + n - 1),
              Char(html, m.from + n + 1),
              SubSeq(html, m.from + n + 2, m.to - 3), tgt, r)
AttrReplace(html, ms, tgt, r) ==
  Splice(html, ms,
         [i \in 1..Len(ms) |-> AttrGroups(html, ms[i], AttrLenAt(html, ms[i].from), tgt, r)],
         1, 1)
RewriteAttrs(html, tgt, r) == AttrReplace(html, FindAll(html, 1, AttrPattern), tgt, r)

\* part.split(/\s+/)[0] of a trimmed part
UrlPartAt(part, sp) == IF sp = 0 THEN part ELSE SubSeq(part, 1, sp - 1)
UrlPart(part) == UrlPartAt(part, CharIndex(part, " "))

\* one candidate: the proxy URL, then part.slice(urlPart.length)
Candidate(part, abs, r) ==
  ProxyBase(r) \o "?url=" \o encodeURIComponent(Href(abs))
    \o SubSeq(part, Len(UrlPart(part)) + 1, Len(part))
\* the try block of the srcset callback and its catch: abs[i] is new URL(urlPart, target)
SrcsetOut(m, q, parts, abs, r) ==
  IF \A i \in 1..Len(parts) : abs[i].ok
  THEN "srcset=" \o q \o Join([i \in 1..Len(parts) |-> Candidate(parts[i], abs[i], r)], ", ")
         \o q
  ELSE m
SrcsetParts(m, q, parts, tgt, r) ==
  SrcsetOut(m, q, parts, [i \in 1..Len(parts) |-> ParseURL(UrlPart(parts[i]), tgt)], r)
rewriteSrcset(m, q, val, tgt, r) == SrcsetParts(m, q, MapTrim(Split(val, ",")), tgt, r)

SrcsetReplace(html, ms, tgt, r) ==
  Splice(html, ms,
         [i \in 1..Len(ms) |->
            rewriteSrcset(SubSeq(html, ms[i].from, ms[i].to - 1), Char(html, ms[i].from + 7),
                          SubSeq(html, ms[i].from + 8, ms[i].to - 3), tgt, r)],
         1, 1)
RewriteSrcsets(html, tgt, r) == SrcsetReplace(html, FindAll(html, 1, SrcsetPattern), tgt, r)

RewriteHtml(html, tgt, r) == RewriteSrcsets(RewriteAttrs(StripMetaCsp(html), tgt, r), tgt, r)

\* 'Unauthorized <U+2014> invalid API key': "--" stands for the em dash, which
\* is not a character of a TLA+ string
UnauthorizedBody == "Unauthorized -- invalid API key"

\* the body without the fall-back to String(err)
ErrorBodyMessageOnly(e) == "Proxy error: " \o e.message

\* 'Proxy error: ' + String(err.message || err)
ErrorBody(e) == "Proxy error: " \o (IF e.message # "" THEN e.message ELSE e.str)

\* the pass-through answering 200 whatever the upstream said
PassThroughStatusOk(up) == 200

\* res.status(upstream.status)
PassThroughStatus(up) == up.status


(***************************************************************************)
(* Inputs: the requests, the environment and what the upstream answers     *)
(***************************************************************************)
QueryUrls ==
  { "", "not a url", "ftp://example.com/f",
    "http://localhost/", "http://LOCALHOST:8080/x", "http://127.0.0.1/", "http://0.0.0.0/",
    "http://[::1]/", "http://foo.local/x",
    "http://10.0.0.1/", "http://172.16.0.1/", "http://172.31.9.9/", "http://172.32.0.1/",
    "http://192.168.1.1/", "http://8.8.8.8/",
    "https://a.test/dir/page", "https://a.test/",
    "http://example.com/", "https://api.example.com/v1", "http://evil.com/",
    "http://notexample.com/" }

\* the targets the wrong-key and no-key requests carry
KeyProbeUrls == {"", "not a url", "http://localhost/", "https://a.test/dir/page"}

Requests ==
  { [queryUrl |-> u, headerUrl |-> "", apiKey |-> "s3cret", protocol |-> "",
     host |-> "proxy.test"] : u \in QueryUrls }
  \cup
  { [queryUrl |-> u, headerUrl |-> "", apiKey |-> k, protocol |-> "", host |-> "proxy.test"] :
      u \in KeyProbeUrls, k \in {"", "wrong"} }
  \cup
  { [queryUrl |-> "", headerUrl |-> "https://a.test/dir/page", apiKey |-> k,
     protocol |-> "http", host |-> "proxy.test"] : k \in {"s3cret", "wrong"} }

Environments ==
  { [API_KEY |-> k, ALLOWLIST |-> a] :
      k \in {"", "s3cret"}, a \in {"", "example.com", " example.com , a.test,", "0.0.1"} }

HtmlBodies ==
  { "<p>plain</p>",
    "<img src=" \o DQ \o "https://cdn.test/x.png" \o DQ \o ">",
    "<a href=" \o DQ \o "../other.html" \o DQ \o ">o</a><form action='/post'>",
    "<img srcset=" \o DQ \o "img1.png 1x, img2.png 2x" \o DQ \o ">",
    "<img src=" \o DQ \o "//[bad" \o DQ \o "><a href='ok.html'>",
    "<img srcset='a.png 1x, //[bad 2x'><script src='s.js'>",
    "<meta http-equiv=" \o DQ \o "Content-Security-Policy" \o DQ \o " content='x'><p>",
    "<img src=" \o DQ \o "x.png" \o BS \o "2><a HREF='//[bad" \o BS \o "2>",
    "<img srcset='a.png 1x, b.png 2x" \o BS \o "1><img srcset='//[bad 1x" \o BS \o "1>" }

UpstreamHeaderSets(ct) ==
  { (IF ct = "" THEN {} ELSE {<<"content-type", ct>>}) \cup extra :
      extra \in { {}, {<<"x-frame-options", "DENY">>,
                       <<"content-security-policy", "default-src 'self'">>} } }

Responses ==
  { [status |-> 200, headers |-> {<<"content-type", "text/html; charset=utf-8">>},
     body |-> b] : b \in HtmlBodies }
  \cup
  { [status |-> 404, headers |-> hs, body |-> "<a href=" \o DQ \o "x" \o DQ \o ">"] :
      hs \in UpstreamHeaderSets("text/html") }
  \cup
  UNION { { [status |-> st, headers |-> hs, body |-> "PNG-bytes"] :
              st \in {200, 403, 404}, hs \in UpstreamHeaderSets(ct) } :
          ct \in {"", "image/png", "Text/HTML"} }
  \cup
  { [status |-> 200, headers |-> {<<"content-type", "application/json">>},
     body |-> "<a href=" \o DQ \o "x" \o DQ \o "><img src='y.png" \o BS \o "2>"] }

\* what fetch, text() and arrayBuffer() reject with: an Error with a message, an
\* Error without one, a thrown string
Errors ==
  { [message |-> "fetch failed", str |-> "TypeError: fetch failed"],
    [message |-> "", str |-> "Error"],
    [message |-> "", str |-> "boom"] }

NoResponse == [status |-> 0, headers |-> {}, body |-> ""]
NoError    == [message |-> "", str |-> ""]

(***************************************************************************)
(* The handler, one request                                                *)
(***************************************************************************)
VARIABLES
  req,       \* the request
  env,       \* process.env
  pc,        \* where the handler stands
  target,    \* new URL(targetUrl)
  fetches,   \* the URLs fetch was called with, in order
  upstream,  \* what the fetch resolved to
  html,      \* the text being rewritten
  res,       \* status, body and headers of the response
  sent,      \* how many times res.send ran
  err        \* the exception the catch clause holds

vars == <<req, env, pc, target, fetches, upstream, html, res, sent, err>>

Init ==
  /\ req \in Requests
  /\ env \in Environments
  /\ pc = "start"
  /\ target = FailURL
  /\ fetches = <<>>
  /\ upstream = NoResponse
  /\ html = ""
  /\ res = [status |-> 0, body |-> "", headers |-> {}]
  /\ sent = 0
  /\ err = NoError

\* return res.status(st).send(body)
Send(st, body) ==
  /\ res' = [res EXCEPT !.status = st, !.body = body]
  /\ sent' = sent + 1
  /\ pc' = "done"

Goto(l) == pc' = l /\ UNCHANGED <<res, sent>>

ReadTarget ==
  /\ pc = "start"
  /\ IF TargetUrlOf(req) = ""
     THEN Send(400, "Missing " \o DQ \o "url" \o DQ \o " query parameter")
     ELSE Goto("apikey")
  /\ UNCHANGED <<req, env, target, fetches, upstream, html, err>>

CheckApiKey ==
  /\ pc = "apikey"
  /\ IF ApiKeyRejected(env, req)
     THEN Send(401, UnauthorizedBody)
     ELSE Goto("parse")
  /\ UNCHANGED <<req, env, target, fetches, upstream, html, err>>

ParseTarget ==
  /\ pc = "parse"
  /\ LET u == ParseURL(TargetUrlOf(req), FailURL)
     IN  IF u.ok
         THEN target' = u /\ Goto("scheme")
         ELSE target' = target /\ Send(400, "Invalid URL")
  /\ UNCHANGED <<req, env, fetches, upstream, html, err>>

CheckScheme ==
  /\ pc = "scheme"
  /\ IF SchemeAllowed(target) THEN Goto("host") ELSE Send(400, "Only http/https allowed")
  /\ UNCHANGED <<req, env, target, fetches, upstream, html, err>>

ScreenHost ==
  /\ pc = "host"
  /\ IF IsForbiddenHost(Hostname(target)) THEN Send(403, "Forbidden host") ELSE Goto("iprange")
  /\ UNCHANGED <<req, env, target, fetches, upstream, html, err>>

ScreenIpRange ==
  /\ pc = "iprange"
  /\ IF IsForbiddenIpRange(Hostname(target))
     THEN Send(403, "Forbidden IP range")
     ELSE Goto("allowlist")
  /\ UNCHANGED <<req, env, target, fetches, upstream, html, err>>

CheckAllowlist ==
  /\ pc = "allowlist"
  /\ LET allowlist == AllowlistOf(env)
     IN  IF Len(allowlist) > 0 /\ ~AllowlistOk(allowlist, Hostname(target))
         THEN Send(403, "Host not allowed by allowlist")
         ELSE Goto("fetch")
  /\ UNCHANGED <<req, env, target, fetches, upstream, html, err>>

\* fetch(target.toString(), { redirect: 'follow' }) is called and awaited
IssueFetch ==
  /\ pc = "fetch"
  /\ fetches' = Append(fetches, Href(target))
  /\ Goto("awaitFetch")
  /\ UNCHANGED <<req, env, target, upstream, html, err>>

\* the fetch resolves; the content type decides the path
FetchResolves ==
  /\ pc = "awaitFetch"
  /\ \E r \in Responses :
       /\ upstream' = r
       /\ IF IsHtml(HeaderGet(r.headers, "content-type"))
          THEN Goto("text")
          ELSE Goto("forwardType")
  /\ UNCHANGED <<req, env, target, fetches, html, err>>

Throw(e) == err' = e /\ Goto("catch")

FetchRejects ==
  /\ pc = "awaitFetch"
  /\ \E e \in Errors : Throw(e)
  /\ UNCHANGED <<req, env, target, fetches, upstream, html>>

\* let html = await upstream.text()
ReadText ==
  /\ pc = "text"
  /\ html' = upstream.body
  /\ Goto("rewrite")
  /\ UNCHANGED <<req, env, target, fetches, upstream, err>>

ReadTextRejects ==
  /\ pc = "text"
  /\ \E e \in Errors : Throw(e)
  /\ UNCHANGED <<req, env, target, fetches, upstream, html>>

\* the three replace calls
Rewrite ==
  /\ pc = "rewrite"
  /\ html' = RewriteHtml(html, target, req)
  /\ Goto("sendHtml")
  /\ UNCHANGED <<req, env, target, fetches, upstream, err>>

SendHtml ==
  /\ pc = "sendHtml"
  /\ res' = [status |-> 200, body |-> html,
             headers |-> SetHeader(SetHeader(res.headers, "content-type",
                                             "text/html; charset=utf-8"),
                                   "Content-Security-Policy", "frame-ancestors *")]
  /\ sent' = sent + 1
  /\ pc' = "done"
  /\ UNCHANGED <<req, env, target, fetches, upstream, html, err>>

\* const ct = upstream.headers.get('content-type'); if (ct) res.setHeader(...)
ForwardContentType ==
  /\ pc = "forwardType"
  /\ LET ct == HeaderGet(upstream.headers, "content-type")
     IN  res' = IF ct # "" THEN [res EXCEPT !.headers = SetHeader(@, "content-type", ct)]
                ELSE res
  /\ pc' = "arrayBuffer"
  /\ UNCHANGED <<req, env, target, fetches, upstream, html, sent, err>>

\* await upstream.arrayBuffer(); res.status(upstream.status).send(Buffer.from(...))
SendBytes ==
  /\ pc = "arrayBuffer"
  /\ Send(PassThroughStatus(upstream), upstream.body)
  /\ UNCHANGED <<req, env, target, fetches, upstream, html, err>>

ReadBytesRejects ==
  /\ pc = "arrayBuffer"
  /\ \E e \in Errors : Throw(e)
  /\ UNCHANGED <<req, env, target, fetches, upstream, html>>

\* catch (err) { return res.status(502).send('Proxy error: ' + ...) }
Catch ==
  /\ pc = "catch"
  /\ Send(502, ErrorBody(err))
  /\ UNCHANGED <<req, env, target, fetches, upstream, html, err>>

Next ==
  \/ ReadTarget \/ CheckApiKey \/ ParseTarget \/ CheckScheme
  \/ ScreenHost \/ ScreenIpRange \/ CheckAllowlist
  \/ IssueFetch \/ FetchResolves \/ FetchRejects
  \/ ReadText \/ ReadTextRejects \/ Rewrite \/ SendHtml
  \/ ForwardContentType \/ SendBytes \/ ReadBytesRejects
  \/ Catch

Spec == Init /\ [][Next]_vars


(***************************************************************************)
(* What the specification says of the handler                              *)
(***************************************************************************)
Done == pc = "done"
\* the handler answered from a validation gate: nothing was fetched
Rejected == Done /\ fetches = <<>>
\* the upstream answered and its body was read: the handler answered from it
Answered == Done /\ upstream # NoResponse /\ err = NoError

MissingBody == "Missing " \o DQ \o "url" \o DQ \o " query parameter"
NotAllowedBody == "Host not allowed by allowlist"

\* a literal dotted quad: four runs of digits
ClaimedQuadParts(ps) == Len(ps) = 4 /\ \A i \in 1..4 : AllDigits(ps[i])
ClaimedDottedQuad(h) == ClaimedQuadParts(Split(h, "."))

\* section 4.2, first two rules ("[::1]" is how a URL spells the host ::1)
ClaimedForbiddenHost(h) ==
  \/ h \in {"localhost", "0.0.0.0", "::1", "[::1]"}
  \/ (ClaimedDottedQuad(h) /\ StartsWith(h, "127."))
  \/ EndsWith(h, ".local")

\* section 4.2, third rule
ClaimedPrivateOctets(a, b) ==
  a = 10 \/ (a = 172 /\ b >= 16 /\ b <= 31) \/ (a = 192 /\ b = 168)
ClaimedPrivateParts(ps) == ClaimedPrivateOctets(StrToNat(ps[1]), StrToNat(ps[2]))
ClaimedPrivateRange(h) == ClaimedDottedQuad(h) /\ ClaimedPrivateParts(Split(h, "."))

\* the entries each configured ALLOWLIST value stands for
ClaimedEntries(raw) ==
  CASE raw = "" -> {}
    [] raw = "example.com" -> {"example.com"}
    [] raw = " example.com , a.test," -> {"example.com", "a.test"}
    [] raw = "0.0.1" -> {"0.0.1"}

\* equal to an entry, or ending with a dot followed by an entry
ClaimedAllowed(h, E) ==
  \E e \in E : h = e \/ (Len(h) > Len(e) /\ SubSeq(h, Len(h) - Len(e), Len(h)) = "." \o e)

NoFailure == <<0, "">>
\* status and body of the first gate that fails, in the order of section 4.1
ClaimedHostFailure(h, E) ==
  IF ClaimedForbiddenHost(h) THEN <<403, "Forbidden host">>
  ELSE IF ClaimedPrivateRange(h) THEN <<403, "Forbidden IP range">>
  ELSE IF E # {} /\ ~ClaimedAllowed(h, E) THEN <<403, NotAllowedBody>>
  ELSE NoFailure
ClaimedUrlFailure(u, E) ==
  IF ~u.ok THEN <<400, "Invalid URL">>
  ELSE IF u.scheme \notin {"http", "https"} THEN <<400, "Only http/https allowed">>
  ELSE ClaimedHostFailure(u.hostname, E)
ClaimedFirstFailure ==
  IF req.queryUrl = "" /\ req.headerUrl = "" THEN <<400, MissingBody>>
  ELSE IF env.API_KEY # "" /\ req.apiKey # env.API_KEY THEN <<401, UnauthorizedBody>>
  ELSE ClaimedUrlFailure(ParseURL(TargetUrlOf(req), FailURL), ClaimedEntries(env.ALLOWLIST))

\* the request went past the API-key gate with an http/https target
HttpTarget == target.ok /\ target.scheme \in {"http", "https"}

\* C1: a request that has a target, passes the API-key gate and names an
\* http/https URL whose host is localhost, 0.0.0.0, ::1, a dotted quad
\* beginning "127." or a name ending in ".local" is answered 403
\* 'Forbidden host' and nothing is fetched.
C1_ForbiddenHostRejected ==
  (HttpTarget /\ ClaimedForbiddenHost(target.hostname))
    => /\ fetches = <<>>
       /\ Done => (res.status = 403 /\ res.body = "Forbidden host")

\* C2: a request that passed the earlier gates and whose host is a literal
\* dotted quad in 10.0.0.0/8, 172.16.0.0/12 or 192.168.0.0/16 is answered 403
\* 'Forbidden IP range' and nothing is fetched; no other host is answered so.
C2_PrivateRangeRejected ==
  /\ (HttpTarget /\ ~ClaimedForbiddenHost(target.hostname)
        /\ ClaimedPrivateRange(target.hostname))
       => /\ fetches = <<>>
          /\ Done => (res.status = 403 /\ res.body = "Forbidden IP range")
  /\ (Rejected /\ res.body = "Forbidden IP range") => ClaimedPrivateRange(target.hostname)

\* C3: the gates are evaluated in the order presence, API key, URL parse,
\* scheme, host screening, allowlist, and a rejected request carries the
\* status and body of the first gate it fails.
C3_FirstFailingGateWins ==
  Rejected => <<res.status, res.body>> = ClaimedFirstFailure

\* the request went past host screening: it stands at the fetch, has fetched,
\* or was turned away by the allowlist
PastScreening ==
  \/ pc = "fetch"
  \/ fetches # <<>>
  \/ (Rejected /\ res.status = 403 /\ res.body = NotAllowedBody)

AllowlistVerdict(ok) ==
  IF ok THEN ~Rejected
  ELSE fetches = <<>> /\ pc # "fetch" /\ res.status = 403 /\ res.body = NotAllowedBody

\* C4: with a non-empty allowlist a host that passed host screening is accepted
\* iff it equals an entry or ends with "." followed by an entry, and is
\* otherwise answered 403 'Host not allowed by allowlist'; with an empty
\* allowlist every host that passed host screening is accepted.
C4_AllowlistGate ==
  PastScreening
    => AllowlistVerdict(\/ ClaimedEntries(env.ALLOWLIST) = {}
                        \/ ClaimedAllowed(target.hostname, ClaimedEntries(env.ALLOWLIST)))

\* a subdomain of a trimmed entry went through to the fetch
C4_Witness ==
  /\ env.ALLOWLIST = " example.com , a.test,"
  /\ target.ok /\ target.hostname = "api.example.com"
  /\ Len(fetches) = 1

(***************************************************************************)
(* The rewriting the specification describes: an attribute value sits      *)
(* between two quotes of the same kind.                                    *)
(***************************************************************************)
ClaimedAttrPattern ==
  { <<ILit(AttrNames[i]), Lit("="), Lit(q), Rep(DQ \o SQ \o ">", TRUE, 1), Lit(q)>> :
      i \in 1..3, q \in {DQ, SQ} }
ClaimedSrcsetPattern ==
  { <<ILit("srcset="), Lit(q), Rep(DQ \o SQ, TRUE, 1), Lit(q)>> : q \in {DQ, SQ} }

\* the text of a match, and the value between its quotes (n: length of the name)
MatchText(s, m) == SubSeq(s, m.from, m.to - 1)
QuotedValue(s, m, n) == SubSeq(s, m.from + n + 2, m.to - 2)

\* attr=q<proxyBase>?url=<percent-encoded absolute URL>q
ClaimedAttrText(s, m, n, abs) ==
  SubSeq(s, m.from, m.from + n + 1) \o ProxyBase(req) \o "?url="
    \o encodeURIComponent(Href(abs)) \o Char(s, m.to - 1)

AttrResolves(s, m, n) == ParseURL(QuotedValue(s, m, n), target).ok
AttrRewritten(s, m, n, out) ==
  Includes(out, ClaimedAttrText(s, m, n, ParseURL(QuotedValue(s, m, n), target)))

SrcsetResolves(parts) == \A i \in 1..Len(parts) : ParseURL(UrlPart(parts[i]), target).ok
SrcsetValueResolves(s, m) == SrcsetResolves(MapTrim(Split(QuotedValue(s, m, 6), ",")))
SrcsetRewritten(s, m, out) ==
  Includes(out, rewriteSrcset(MatchText(s, m), Char(s, m.to - 1), QuotedValue(s, m, 6),
                              target, req))

AllAttrsRewritten(s, ms, out) ==
  \A i \in 1..Len(ms) :
    AttrResolves(s, ms[i], AttrLenAt(s, ms[i].from))
      => AttrRewritten(s, ms[i], AttrLenAt(s, ms[i].from), out)
AllSrcsetsRewritten(s, ms, out) ==
  \A i \in 1..Len(ms) : SrcsetValueResolves(s, ms[i]) => SrcsetRewritten(s, ms[i], out)

\* the handler answered on the HTML path
AnsweredHtml == Answered /\ Includes(HeaderGet(upstream.headers, "content-type"), "text/html")

\* C5: on the HTML path every src, href or action attribute whose value sits in
\* matching quotes and resolves against the upstream URL is replaced by the
\* same attribute, same quotes, with value proxyBase?url=<encoded absolute URL>.
C5_AttrsRewritten ==
  AnsweredHtml
    => AllAttrsRewritten(upstream.body, FindAll(upstream.body, 1, ClaimedAttrPattern), res.body)

\* C6: on the HTML path every quoted srcset attribute is rewritten candidate by
\* candidate, descriptors kept, candidates rejoined with ", ".
C6_SrcsetsRewritten ==
  AnsweredHtml
    => AllSrcsetsRewritten(upstream.body, FindAll(upstream.body, 1, ClaimedSrcsetPattern),
                           res.body)

SomeAttrFails(s, ms) ==
  \E i \in 1..Len(ms) : ~AttrResolves(s, ms[i], AttrLenAt(s, ms[i].from))
SomeSrcsetFails(s, ms) == \E i \in 1..Len(ms) : ~SrcsetValueResolves(s, ms[i])
FailedKept(s, ms, out) ==
  \A i \in 1..Len(ms) :
    ~AttrResolves(s, ms[i], AttrLenAt(s, ms[i].from)) => Includes(out, MatchText(s, ms[i]))
FailedSrcsetKept(s, ms, out) ==
  \A i \in 1..Len(ms) : ~SrcsetValueResolves(s, ms[i]) => Includes(out, MatchText(s, ms[i]))

Isolation(s, as, ss, out) ==
  (SomeAttrFails(s, as) \/ SomeSrcsetFails(s, ss))
    => /\ res.status = 200
       /\ FailedKept(s, as, out) /\ FailedSrcsetKept(s, ss, out)
       /\ AllAttrsRewritten(s, as, out) /\ AllSrcsetsRewritten(s, ss, out)

\* C7: when one attribute (or one candidate of a srcset) fails to resolve, its
\* text stays as it was, every other rewritable attribute is still rewritten,
\* and the request ends with 200.
C7_FailureIsolated ==
  AnsweredHtml
    => Isolation(upstream.body, FindAll(upstream.body, 1, ClaimedAttrPattern),
                 FindAll(upstream.body, 1, ClaimedSrcsetPattern), res.body)

\* contains the substring text/html
ClaimedHtml(ct) == \E i \in 1..Len(ct) : i + 8 <= Len(ct) /\ SubSeq(ct, i, i + 8) = "text/html"

ScrubbedNames == {"x-frame-options", "content-security-policy"}
ContentTypes(headers) == {h \in headers : ToLowerCase(h[1]) = "content-type"}

PassedThrough(ct) ==
  /\ res.body = upstream.body
  /\ res.status = upstream.status
  /\ ContentTypes(res.headers) = (IF ct = "" THEN {} ELSE {<<"content-type", ct>>})
  /\ \A h \in res.headers : ToLowerCase(h[1]) \notin ScrubbedNames
RewritePathTaken ==
  /\ res.status = 200
  /\ <<"content-type", "text/html; charset=utf-8">> \in res.headers
  /\ <<"Content-Security-Policy", "frame-ancestors *">> \in res.headers

ClaimedClassified(ct) == IF ClaimedHtml(ct) THEN RewritePathTaken ELSE PassedThrough(ct)

\* C8: when the upstream answered (fetch and body read succeeded) with a content
\* type that does not contain "text/html", or with none, the response is the
\* upstream's bytes and status, its content type when it has one, and neither
\* its X-Frame-Options nor its Content-Security-Policy; a content type that
\* contains "text/html" takes the rewrite path and answers 200 whatever the
\* upstream status.
C8_PassThrough ==
  Answered => ClaimedClassified(HeaderGet(upstream.headers, "content-type"))

\* a 403 image with frame headers went through untouched
C8_Witness ==
  /\ Answered
  /\ upstream.status = 403 /\ res.status = 403 /\ res.body = "PNG-bytes"
  /\ <<"x-frame-options", "DENY">> \in upstream.headers
  /\ <<"content-type", "image/png">> \in res.headers

Failed == err # NoError

\* C9 as stated: a failure of the fetch or of reading the body ends the request
\* with one response, 502 and 'Proxy error: ' followed by the error's message.
C9_Original ==
  (Failed /\ Done)
    => (res.status = 502 /\ res.body = "Proxy error: " \o err.message /\ sent = 1)

ClaimedErrorText(e) == IF e.message = "" THEN e.str ELSE e.message

\* C9, amended: after a failure of the fetch or of reading the body the handler
\* stands in its catch clause or has answered; it answers once, with 502 and
\* 'Proxy error: ' followed by the error's message, or by the error's string
\* form when it has no message; the fetch is not issued again.
C9_ProxyError ==
  Failed
    => /\ pc \in {"catch", "done"}
       /\ Len(fetches) = 1
       /\ sent = (IF Done THEN 1 ELSE 0)
       /\ Done => (res.status = 502 /\ res.body = "Proxy error: " \o ClaimedErrorText(err))

\* reading the body of an answered fetch threw a string
C9_Witness ==
  /\ Done /\ upstream # NoResponse
  /\ err = [message |-> "", str |-> "boom"]
  /\ res.status = 502 /\ res.body = "Proxy error: boom"

\* C10: the fetch is issued at most once and only after all six gates have
\* passed; no request answered 400, 401 or 403 has fetched; nothing is
\* rewritten or answered for a validated request before the fetch completed.
C10_FetchAfterGates ==
  /\ Len(fetches) <= 1
  /\ (pc = "awaitFetch" \/ fetches # <<>>) => ClaimedFirstFailure = NoFailure
  /\ (Done /\ res.status \in {400, 401, 403}) => fetches = <<>>
  /\ (pc \in {"text", "rewrite", "sendHtml", "forwardType", "arrayBuffer"})
       => (fetches # <<>> /\ upstream # NoResponse /\ sent = 0)

=============================================================================
